---------------------------- MODULE Spec2Model ----------------------------
(***************************************************************************)
(* Model of the telemetry / time-sync core of gateway-board26              *)
(* (Core/Src/telemetry.c, Core/Inc/telemetry.h, Core/Src/telemetry_thread.c)*)
(* as built with TELEMETRY_ENABLED defined.                                *)
(*                                                                         *)
(* The node's mutable state is the set of file-scope objects of            *)
(* telemetry.c.  Every C function is an operator over a "world" record w   *)
(* that holds those objects and returns [w |-> the world it leaves,        *)
(* v |-> its return value]; w.calls lists, in order, the calls it made to  *)
(* the external collaborators.  A facade entry point that first calls      *)
(* init_telemetry_router and then the router is thus one atomic action.    *)
(* The collaborators (ThreadX tick counter, CAN driver, sedsprintf router) *)
(* are inputs: every value they can return is drawn with \E.               *)
(*                                                                         *)
(* TLC integers are 32 bits wide, so the hardware tick counter is modelled *)
(* with a wrap span of TickModulus instead of 2^32; times stay far below   *)
(* 2^63, where the (int64_t) casts of the source are the identity.         *)
(***************************************************************************)
EXTENDS Integers, Sequences, FiniteSets, TLC

VARIABLES
  TELEMETRY_TIME_MASTER, \* build-time role: TRUE on the master node
  last_ticks32,          \* tx_raw_now_ms: static last_ticks32
  high,                  \* tx_raw_now_ms: static high
  g_master_offset_ms,    \* SyncOffsetMs
  g_last_delay_ms,       \* LastDelayMs
  g_unix_base_ms,        \* UnixBase
  g_unix_valid,          \* UnixBase validity flag
  g_router,              \* RouterState: [r, created, start_time]
  g_can_rx_subscribed,
  g_can_side_id,
  g_timesync_seq,
  routers,               \* collaborator: number of routers seds_router_new made
  sides,                 \* collaborator: number of transport sides attached
  nsync,                 \* RESPONSEs the client has acted on
  cand,                  \* SpecApply: the constant candidate offset;
                         \* SpecLoop: the constant clock difference O
  napplied,              \* SpecApply: applications of cand so far;
                         \* SpecLoop: exchanges completed so far
  est,                   \* SpecEstimator: [t1, t2, t3, t4, out]
  ctx                    \* SpecRace: per context, its position in
                         \* init_telemetry_router and its local r

vars == <<TELEMETRY_TIME_MASTER, last_ticks32, high, g_master_offset_ms,
          g_last_delay_ms, g_unix_base_ms, g_unix_valid, g_router,
          g_can_rx_subscribed, g_can_side_id, g_timesync_seq, routers, sides,
          nsync, cand, napplied, est, ctx>>

(* ------------------------------ constants ------------------------------ *)

NET_TIMESYNC_MAX_STEP_MS == 30000

NET_TIMESYNC_SMOOTH_DIV == 4

\* ThreadX tick rate; the platform header sets it, telemetry.c requires it.
TX_TIMER_TICKS_PER_SECOND == 1000

\* Longest error message log_error_* formats into its buffer.
LOG_ERROR_MAX_LEN == 512

\* Minimum payload lengths checked by on_timesync.
RESPONSE_MIN_LEN == 32

REQUEST_MIN_LEN == 16

ANNOUNCE_MIN_LEN == 16

(* -------------------------------- bounds ------------------------------- *)

\* Wrap span of the modelled hardware tick counter (2^32 in the source).
TickModulus == 2048

\* Wrap span of the modelled uint64_t result of node_now_since_ms (2^64 in
\* the source).
ElapsedModulus == 1073741824

\* Wraps of the tick counter a run may see.
MaxWraps == 1

\* RESPONSEs a client acts on in a run (bounds g_master_offset_ms, which
\* accumulates).
MaxSync == 1

\* REQUESTs a client sends in a run (bounds g_timesync_seq).
MaxRequests == 1

\* Largest timestamp handed to the estimator in SpecEstimator.
EstMax == 4

\* Routers seds_router_new hands out in a run of SpecRace.
MaxRouters == 2

\* Ticks between two exchanges of SpecLoop.
LoopGap == 100

\* Consecutive applications of one candidate in SpecApply, exchanges in
\* SpecLoop.
MaxApply == 6

\* Candidates of SpecApply: those within CandSmall of 0 and within
\* CandSlack of +-NET_TIMESYNC_MAX_STEP_MS, and +-1000.
CandSmall == 20

CandSlack == 3

(* ------------------------------- helpers ------------------------------- *)

Abs(x) == IF x < 0 THEN -x ELSE x

\* C integer division: truncates toward zero.
CDiv(a, b) == IF (a >= 0) = (b > 0) THEN Abs(a) \div Abs(b)
              ELSE -(Abs(a) \div Abs(b))

NULL == 0

World ==
  [last_ticks32 |-> last_ticks32, high |-> high,
   g_master_offset_ms |-> g_master_offset_ms,
   g_last_delay_ms |-> g_last_delay_ms,
   g_unix_base_ms |-> g_unix_base_ms, g_unix_valid |-> g_unix_valid,
   g_router |-> g_router, g_can_rx_subscribed |-> g_can_rx_subscribed,
   g_can_side_id |-> g_can_side_id, g_timesync_seq |-> g_timesync_seq,
   routers |-> routers, sides |-> sides, nsync |-> nsync, calls |-> <<>>]

\* The program's objects become those of world w.
Becomes(w) ==
  /\ last_ticks32' = w.last_ticks32
  /\ high' = w.high
  /\ g_master_offset_ms' = w.g_master_offset_ms
  /\ g_last_delay_ms' = w.g_last_delay_ms
  /\ g_unix_base_ms' = w.g_unix_base_ms
  /\ g_unix_valid' = w.g_unix_valid
  /\ g_router' = w.g_router
  /\ g_can_rx_subscribed' = w.g_can_rx_subscribed
  /\ g_can_side_id' = w.g_can_side_id
  /\ g_timesync_seq' = w.g_timesync_seq
  /\ routers' = w.routers
  /\ sides' = w.sides
  /\ nsync' = w.nsync
  /\ UNCHANGED TELEMETRY_TIME_MASTER

\* The run stays inside the bounds of the model.
InBounds(w) ==
  /\ w.high <= MaxWraps * TickModulus
  /\ w.nsync <= MaxSync
  /\ w.g_timesync_seq <= 1 + MaxRequests

(* ---------------------- ThreadX clock (32->64 extender) ----------------- *)

\* Mutation: the wrap of the tick counter is not detected.
tx_raw_now_ms_nowrap(w, cur32) ==
  [w |-> [w EXCEPT !.last_ticks32 = cur32],
   v |-> ((w.high + cur32) * 1000) \div TX_TIMER_TICKS_PER_SECOND]

\* cur32 is the reading of tx_time_get().  high is a multiple of the wrap
\* span and cur32 is below it, so high | cur32 is high + cur32.
tx_raw_now_ms(w, cur32) ==
  LET h == IF cur32 < w.last_ticks32 THEN w.high + TickModulus ELSE w.high
  IN  [w |-> [w EXCEPT !.high = h, !.last_ticks32 = cur32],
       v |-> ((h + cur32) * 1000) \div TX_TIMER_TICKS_PER_SECOND]

telemetry_now_ms(w, cur32) ==
  LET c == tx_raw_now_ms(w, cur32)
      t == c.v + c.w.g_master_offset_ms
  IN  [w |-> c.w, v |-> IF t < 0 THEN 0 ELSE t]

\* Mutation: the validity flag is not consulted.
telemetry_unix_ms_novalid(w, cur32) ==
  LET now == telemetry_now_ms(w, cur32)
      t   == now.v + now.w.g_unix_base_ms
  IN  [w |-> now.w, v |-> IF t < 0 THEN 0 ELSE t]

telemetry_unix_ms(w, cur32) ==
  IF w.g_unix_valid = 0 THEN [w |-> w, v |-> 0]
  ELSE LET now == telemetry_now_ms(w, cur32)
           t   == now.v + now.w.g_unix_base_ms
       IN  [w |-> now.w, v |-> IF t < 0 THEN 0 ELSE t]

\* The value tx_raw_now_ms returned last (its statics determine it).
RawNow == ((high + last_ticks32) * 1000) \div TX_TIMER_TICKS_PER_SECOND

(* ------------------------------- NTP math ------------------------------ *)

\* Mutation: the delay is the whole round trip, server time included.
compute_offset_delay_rtt(t1, t2, t3, t4) ==
  LET o == CDiv((t2 - t1) + (t3 - t4), 2)
      d == t4 - t1
  IN  [offset_ms |-> o, delay_ms |-> IF d < 0 THEN 0 ELSE d]

\* Mutation: the halving rounds down instead of toward zero.
compute_offset_delay_floor(t1, t2, t3, t4) ==
  LET o == ((t2 - t1) + (t3 - t4)) \div 2
      d == (t4 - t1) - (t3 - t2)
  IN  [offset_ms |-> o, delay_ms |-> IF d < 0 THEN 0 ELSE d]

compute_offset_delay(t1, t2, t3, t4) ==
  LET o == CDiv((t2 - t1) + (t3 - t4), 2)
      d == (t4 - t1) - (t3 - t2)
  IN  [offset_ms |-> o, delay_ms |-> IF d < 0 THEN 0 ELSE d]

\* Mutation: no minimum unit step.
SmoothStep_nounit(offset_ms) == CDiv(offset_ms, NET_TIMESYNC_SMOOTH_DIV)

\* The step client_apply_offset_ms adds for a candidate it accepts.
SmoothStep(offset_ms) ==
  LET step == CDiv(offset_ms, NET_TIMESYNC_SMOOTH_DIV)
  IN  IF step = 0
      THEN (IF offset_ms > 0 THEN 1 ELSE IF offset_ms < 0 THEN -1 ELSE 0)
      ELSE step

\* Mutation: the candidate is added whole, without bound or smoothing.
client_apply_offset_ms_jump(w, offset_ms) ==
  [w EXCEPT !.g_master_offset_ms = @ + offset_ms]

client_apply_offset_ms(w, offset_ms) ==
  IF offset_ms > NET_TIMESYNC_MAX_STEP_MS \/ offset_ms < -NET_TIMESYNC_MAX_STEP_MS
  THEN w
  ELSE [w EXCEPT !.g_master_offset_ms = @ + SmoothStep(offset_ms)]

(* ---------------------------- router creation --------------------------- *)

\* Record one collaborator call made by the running operation.
Call(w, c) == [w EXCEPT !.calls = Append(@, c)]

\* Tick readings tx_time_get() returns in the runs explored.
TickReadings == {505, 1025}

\* Tick readings tx_time_get() returns inside init_telemetry_router.
InitReadings == {505}

RouterResults == {"SEDS_OK", "SEDS_ERR"}

\* What the collaborators answer during one operation:
\*   sub   can_bus_subscribe_rx returned HAL_OK
\*   rnew  seds_router_new returned a router (not NULL)
\*   side  the value seds_router_add_side_serialized returned
\*   cur   the reading of tx_time_get() in init_telemetry_router
\*   res   the result of the router call the operation ends with
\* Answers are drawn only for the calls the operation makes from world w.
NoInitEnv == [sub |-> TRUE, rnew |-> TRUE, side |-> 0, cur |-> 0]

InitEnvs(w) ==
  IF w.g_router.created = 1 /\ w.g_router.r # NULL THEN {NoInitEnv}
  ELSE {[sub |-> TRUE, rnew |-> FALSE, side |-> 0, cur |-> 0],
        [sub |-> FALSE, rnew |-> FALSE, side |-> 0, cur |-> 0]}
       \cup [sub : BOOLEAN, rnew : {TRUE}, side : {-2, 0}, cur : InitReadings]

\* The steps of init_telemetry_router after its check, in program order.
\* Subscribe the receive callback unless an earlier call did.
init_subscribe(w, e) ==
  IF w.g_can_rx_subscribed = 0
  THEN [Call(w, [fn |-> "can_bus_subscribe_rx"])
          EXCEPT !.g_can_rx_subscribed = IF e.sub THEN 1 ELSE 0]
  ELSE w

\* SedsRouter *r = seds_router_new(...): v is r, the routers are numbered
\* from 1 in the order they are made.
init_router_new(w, e) ==
  LET w2 == Call(w, [fn |-> "seds_router_new"])
  IN  IF e.rnew THEN [w |-> [w2 EXCEPT !.routers = @ + 1], v |-> w2.routers + 1]
      ELSE [w |-> w2, v |-> NULL]

\* if (!r) { ...; return SEDS_ERR; }
init_failed(w) ==
  [w EXCEPT !.g_router.r = NULL, !.g_router.created = 0, !.g_can_side_id = -1]

\* g_can_side_id = seds_router_add_side_serialized(r, ...), -1 if negative.
init_add_side(w, r, e) ==
  [Call(w, [fn |-> "seds_router_add_side_serialized", r |-> r])
     EXCEPT !.sides = IF e.side >= 0 THEN @ + 1 ELSE @,
            !.g_can_side_id = IF e.side < 0 THEN -1 ELSE e.side]

\* g_router.r = r; g_router.created = 1; g_router.start_time = now; the
\* master also resets its offset.
init_publish(w, r, e) ==
  LET now == telemetry_now_ms(w, e.cur)
      w4  == [now.w EXCEPT !.g_router =
                [r |-> r, created |-> 1, start_time |-> now.v]]
  IN  IF TELEMETRY_TIME_MASTER THEN [w4 EXCEPT !.g_master_offset_ms = 0] ELSE w4

\* Mutation: the check for a router that already exists is missing.
init_telemetry_router_again(w, e) ==
  LET n == init_router_new(init_subscribe(w, e), e)
  IN  IF n.v = NULL THEN [w |-> init_failed(n.w), v |-> "SEDS_ERR"]
      ELSE [w |-> init_publish(init_add_side(n.w, n.v, e), n.v, e),
            v |-> "SEDS_OK"]

init_telemetry_router(w, e) ==
  IF w.g_router.created = 1 /\ w.g_router.r # NULL
  THEN [w |-> w, v |-> "SEDS_OK"]
  ELSE
    LET n == init_router_new(init_subscribe(w, e), e)
    IN  IF n.v = NULL THEN [w |-> init_failed(n.w), v |-> "SEDS_ERR"]
        ELSE [w |-> init_publish(init_add_side(n.w, n.v, e), n.v, e),
              v |-> "SEDS_OK"]

\* The guard every facade entry point starts with:
\*   if (!g_router.r) { if (init_telemetry_router() != SEDS_OK) return ...; }
EnsureRouter(w, e) ==
  IF w.g_router.r = NULL THEN init_telemetry_router(w, e)
  ELSE [w |-> w, v |-> "SEDS_OK"]

(* ------------------------------ logging APIs ---------------------------- *)

guess_kind_from_elem_size(elem_size) ==
  IF elem_size = 4 \/ elem_size = 8 THEN "SEDS_EK_FLOAT" ELSE "SEDS_EK_UNSIGNED"

LogArgs == [data_null : BOOLEAN, element_count : {0, 3}, element_size : {0, 1, 4}]

BadLogArgs(a) == a.data_null \/ a.element_count = 0 \/ a.element_size = 0

\* Mutation: the arguments are not validated before the enqueue.
LogTelemetry_unchecked(w, e, res, a, queue) ==
  LET i == EnsureRouter(w, e)
  IN  IF i.v # "SEDS_OK" THEN [w |-> i.w, v |-> "SEDS_ERR"]
      ELSE [w |-> Call(i.w, [fn |-> "seds_router_log_typed_ex",
                             r |-> i.w.g_router.r,
                             count |-> a.element_count,
                             size |-> a.element_size,
                             kind |-> guess_kind_from_elem_size(a.element_size),
                             queue |-> queue]),
            v |-> res]

\* The body shared by log_telemetry_synchronous and log_telemetry_asynchronous.
\* a = [data_null, element_count, element_size]; queue is the last argument
\* of seds_router_log_typed_ex (0 synchronous, 1 asynchronous); res is the
\* router's result.
LogTelemetry(w, e, res, a, queue) ==
  LET i == EnsureRouter(w, e)
  IN  IF i.v # "SEDS_OK" THEN [w |-> i.w, v |-> "SEDS_ERR"]
      ELSE IF a.data_null \/ a.element_count = 0 \/ a.element_size = 0
      THEN [w |-> i.w, v |-> "SEDS_BAD_ARG"]
      ELSE [w |-> Call(i.w, [fn |-> "seds_router_log_typed_ex",
                             r |-> i.w.g_router.r,
                             count |-> a.element_count,
                             size |-> a.element_size,
                             kind |-> guess_kind_from_elem_size(a.element_size),
                             queue |-> queue]),
            v |-> res]

log_telemetry_synchronous(w, e, res, a) == LogTelemetry(w, e, res, a, 0)

log_telemetry_asynchronous(w, e, res, a) == LogTelemetry(w, e, res, a, 1)

(* ----------------------------- error logging --------------------------- *)

\* A formatted error message: len is the length its format and arguments
\* produce, fail1 / fail2 tell whether the first / second vsnprintf call
\* reports an encoding error.
ErrMsgs ==
  [len : {0, 5, LOG_ERROR_MAX_LEN, LOG_ERROR_MAX_LEN + 1},
   fail1 : {FALSE}, fail2 : {FALSE}]
  \cup {[len |-> 5, fail1 |-> TRUE, fail2 |-> FALSE],
        [len |-> 5, fail1 |-> FALSE, fail2 |-> TRUE]}

\* vsnprintf(buf, size, fmt, args) for a message of formatted length len:
\* ret is the length the whole message needs (negative on an encoding
\* error), stored the characters put into buf before the terminating NUL.
vsnprintf(size, len, fail) ==
  [ret |-> IF fail THEN -1 ELSE len,
   stored |-> IF fail \/ size = 0 THEN 0
              ELSE IF len < size - 1 THEN len ELSE size - 1]

\* The body shared by log_error_syncronous and log_error_asyncronous; the
\* recorded call carries len, the length handed to the router, and buf, the
\* characters the buffer handed to it holds.
LogError(w, e, res, m, queue) ==
  LET i == EnsureRouter(w, e)
      empty == [fn |-> "seds_router_log_string_ex", r |-> i.w.g_router.r,
                len |-> 0, buf |-> 0, queue |-> queue]
      first == vsnprintf(0, m.len, m.fail1)
      len == IF first.ret > LOG_ERROR_MAX_LEN THEN LOG_ERROR_MAX_LEN ELSE first.ret
      second == vsnprintf(len + 1, m.len, m.fail2)
  IN  IF i.v # "SEDS_OK" THEN [w |-> i.w, v |-> "SEDS_ERR"]
      ELSE IF first.ret < 0 THEN [w |-> Call(i.w, empty), v |-> res]
      ELSE IF second.ret < 0 THEN [w |-> Call(i.w, empty), v |-> res]
      ELSE [w |-> Call(i.w, [fn |-> "seds_router_log_string_ex",
                             r |-> i.w.g_router.r, len |-> second.ret,
                             buf |-> second.stored, queue |-> queue]),
            v |-> res]

log_error_asyncronous(w, e, res, m) == LogError(w, e, res, m, 1)

log_error_syncronous(w, e, res, m) == LogError(w, e, res, m, 0)

(* --------------------------- queue processing --------------------------- *)

DrainNames == {"seds_router_process_tx_queue", "seds_router_process_rx_queue",
               "seds_router_process_tx_queue_with_timeout",
               "seds_router_process_rx_queue_with_timeout",
               "seds_router_process_all_queues_with_timeout"}

\* The body shared by the five drain entry points; fn is the router call.
Drain(w, e, res, fn) ==
  LET i == EnsureRouter(w, e)
  IN  IF i.v # "SEDS_OK" THEN [w |-> i.w, v |-> "SEDS_ERR"]
      ELSE [w |-> Call(i.w, [fn |-> fn, r |-> i.w.g_router.r]), v |-> res]

dispatch_tx_queue(w, e, res) == Drain(w, e, res, "seds_router_process_tx_queue")

process_rx_queue(w, e, res) == Drain(w, e, res, "seds_router_process_rx_queue")

dispatch_tx_queue_timeout(w, e, res) ==
  Drain(w, e, res, "seds_router_process_tx_queue_with_timeout")

process_rx_queue_timeout(w, e, res) ==
  Drain(w, e, res, "seds_router_process_rx_queue_with_timeout")

process_all_queues_timeout(w, e, res) ==
  Drain(w, e, res, "seds_router_process_all_queues_with_timeout")

(* ----------------------------- router clock ---------------------------- *)

\* The clock handed to seds_router_new: adjusted time since the router was
\* made, an unsigned difference.
node_now_since_ms(w, cur32) ==
  LET now == telemetry_now_ms(w, cur32)
      s   == now.w.g_router
  IN  [w |-> now.w,
       v |-> IF s.r # NULL THEN (now.v - s.start_time) % ElapsedModulus ELSE 0]

(* ------------------------------ RX helpers ------------------------------ *)

\* b = [null, len]: the bytes pointer is NULL, the length.
rx_asynchronous(w, e, b) ==
  IF b.null \/ b.len = 0 THEN [w |-> w, v |-> "void"]
  ELSE
    LET i == EnsureRouter(w, e)
    IN  IF i.v # "SEDS_OK" THEN [w |-> i.w, v |-> "void"]
        ELSE IF i.w.g_can_side_id >= 0
        THEN [w |-> Call(i.w,
                [fn |-> "seds_router_rx_serialized_packet_to_queue_from_side",
                 r |-> i.w.g_router.r, side |-> i.w.g_can_side_id, len |-> b.len]),
              v |-> "void"]
        ELSE [w |-> Call(i.w,
                [fn |-> "seds_router_rx_serialized_packet_to_queue",
                 r |-> i.w.g_router.r, len |-> b.len]),
              v |-> "void"]

telemetry_can_rx(w, e, b) == rx_asynchronous(w, e, b)

RxBytes == [null : BOOLEAN, len : {0, 8}]

(* --------------------------- time sync endpoint ------------------------- *)

RESPONSE == "SEDS_DT_TIME_SYNC_RESPONSE"

REQUEST == "SEDS_DT_TIME_SYNC_REQUEST"

ANNOUNCE == "SEDS_DT_TIME_SYNC_ANNOUNCE"

\* A packet view handed to on_timesync: null (pkt or pkt->payload is NULL),
\* its type, its payload length in bytes, and the four 64-bit words the
\* handler may copy out of the payload (offsets 0, 8, 16, 24).
PayloadWords == {<<1, 1000, 1010, 1012>>, <<3, 40000, 80000, 80000>>}

RequestWords == {<<7, 500, 0, 0>>, <<1, 1000, 1010, 1012>>}

PayloadLens == {0, 15, 16, 31, 32}

AnnounceWords == {<<0, 1000, 0, 0>>, <<1, 1000, 0, 0>>}

Packets ==
  [null : {FALSE}, ty : {RESPONSE}, payload_len : PayloadLens, f : PayloadWords]
  \cup [null : {FALSE}, ty : {ANNOUNCE}, payload_len : PayloadLens, f : AnnounceWords]
  \cup [null : {FALSE}, ty : {REQUEST}, payload_len : PayloadLens, f : RequestWords]
  \cup [null : {FALSE}, ty : {"SEDS_DT_MESSAGE_DATA"}, payload_len : {32},
        f : PayloadWords]
  \cup [null : {TRUE}, ty : {RESPONSE}, payload_len : {0}, f : {<<0, 0, 0, 0>>}]

NoSyncEnv == [cur |-> 0, cur2 |-> 0, res |-> "SEDS_OK"]

\* Mutation: the reply carries the master's receive time in place of t1.
RespPayload_not1(seq, t1, t2, t3) == <<seq, t2, t2, t3>>

\* const uint64_t resp[4] = {seq, t1, t2, t3};
RespPayload(seq, t1, t2, t3) == <<seq, t1, t2, t3>>

\* Mutation: the length guards are dropped.
on_timesync_noguard(w, pkt, cur, cur2, res) ==
  IF pkt.null THEN [w |-> w, v |-> "SEDS_ERR"]
  ELSE IF pkt.ty = RESPONSE
  THEN LET t4 == tx_raw_now_ms(w, cur)
           od == compute_offset_delay(pkt.f[2], pkt.f[3], pkt.f[4], t4.v)
           w1 == IF ~TELEMETRY_TIME_MASTER
                 THEN client_apply_offset_ms(t4.w, od.offset_ms) ELSE t4.w
       IN  [w |-> [w1 EXCEPT !.g_last_delay_ms = od.delay_ms,
                             !.nsync = IF TELEMETRY_TIME_MASTER THEN @ ELSE @ + 1],
            v |-> "SEDS_OK"]
  ELSE [w |-> w, v |-> "SEDS_OK"]

\* Mutation: the offset is applied in either role.
on_response_norole(w, pkt, cur) ==
  LET t4 == tx_raw_now_ms(w, cur)
      od == compute_offset_delay(pkt.f[2], pkt.f[3], pkt.f[4], t4.v)
      w1 == client_apply_offset_ms(t4.w, od.offset_ms)
  IN  [w |-> [w1 EXCEPT !.g_last_delay_ms = od.delay_ms,
                        !.nsync = IF TELEMETRY_TIME_MASTER THEN @ ELSE @ + 1],
       v |-> "SEDS_OK"]

\* Mutation: a RESPONSE is used only if it answers the REQUEST sent last.
on_response_seqmatch(w, pkt, cur) ==
  LET t4 == tx_raw_now_ms(w, cur)
      od == compute_offset_delay(pkt.f[2], pkt.f[3], pkt.f[4], t4.v)
      w1 == IF ~TELEMETRY_TIME_MASTER /\ pkt.f[1] = w.g_timesync_seq - 1
            THEN client_apply_offset_ms(t4.w, od.offset_ms) ELSE t4.w
  IN  [w |-> [w1 EXCEPT !.g_last_delay_ms = od.delay_ms,
                        !.nsync = IF TELEMETRY_TIME_MASTER THEN @ ELSE @ + 1],
       v |-> "SEDS_OK"]

\* The RESPONSE branch of on_timesync; cur is the reading of tx_time_get().
on_response(w, pkt, cur) ==
  LET t4 == tx_raw_now_ms(w, cur)
      od == compute_offset_delay(pkt.f[2], pkt.f[3], pkt.f[4], t4.v)
      w1 == IF ~TELEMETRY_TIME_MASTER
            THEN client_apply_offset_ms(t4.w, od.offset_ms) ELSE t4.w
  IN  [w |-> [w1 EXCEPT !.g_last_delay_ms = od.delay_ms,
                        !.nsync = IF TELEMETRY_TIME_MASTER THEN @ ELSE @ + 1],
       v |-> "SEDS_OK"]

\* cur, cur2: the readings of tx_time_get() in call order; res: the result of
\* seds_router_log_ts.
on_timesync(w, pkt, cur, cur2, res) ==
  IF pkt.null THEN [w |-> w, v |-> "SEDS_ERR"]
  ELSE IF pkt.ty = RESPONSE /\ pkt.payload_len >= RESPONSE_MIN_LEN
  THEN on_response(w, pkt, cur)
  ELSE IF pkt.ty = REQUEST /\ pkt.payload_len >= REQUEST_MIN_LEN
  THEN IF TELEMETRY_TIME_MASTER
       THEN LET t2 == tx_raw_now_ms(w, cur)
                t3 == tx_raw_now_ms(t2.w, cur2)
            IN  [w |-> Call(t3.w, [fn |-> "seds_router_log_ts",
                                   r |-> t3.w.g_router.r, ty |-> RESPONSE,
                                   ts |-> t3.v,
                                   data |-> RespPayload(pkt.f[1], pkt.f[2],
                                                        t2.v, t3.v)]),
                 v |-> res]
       ELSE [w |-> w, v |-> "SEDS_OK"]
  ELSE IF pkt.ty = ANNOUNCE /\ pkt.payload_len >= ANNOUNCE_MIN_LEN
  THEN IF ~TELEMETRY_TIME_MASTER
       THEN LET half_delay == w.g_last_delay_ms \div 2
                now == telemetry_now_ms(w, cur)
            IN  [w |-> [now.w EXCEPT
                          !.g_unix_base_ms = (pkt.f[2] + half_delay) - now.v,
                          !.g_unix_valid = 1],
                 v |-> "SEDS_OK"]
       ELSE [w |-> w, v |-> "SEDS_OK"]
  ELSE [w |-> w, v |-> "SEDS_OK"]

(* ---------------------- time sync request / announce -------------------- *)

\* Mutation: the master requests too.
telemetry_timesync_request_norole(w, e, cur, res) ==
  LET i == EnsureRouter(w, e)
  IN  IF i.v # "SEDS_OK" THEN [w |-> i.w, v |-> "SEDS_ERR"]
      ELSE
        LET t1 == tx_raw_now_ms(i.w, cur)
            w1 == [t1.w EXCEPT !.g_timesync_seq = @ + 1]
        IN  [w |-> Call(w1, [fn |-> "seds_router_log_ts", r |-> w1.g_router.r,
                             ty |-> REQUEST, ts |-> t1.v,
                             data |-> <<t1.w.g_timesync_seq, t1.v>>]),
             v |-> res]

telemetry_timesync_request(w, e, cur, res) ==
  IF TELEMETRY_TIME_MASTER THEN [w |-> w, v |-> "SEDS_OK"]
  ELSE
    LET i == EnsureRouter(w, e)
    IN  IF i.v # "SEDS_OK" THEN [w |-> i.w, v |-> "SEDS_ERR"]
        ELSE
          LET t1 == tx_raw_now_ms(i.w, cur)
              w1 == [t1.w EXCEPT !.g_timesync_seq = @ + 1]
          IN  [w |-> Call(w1, [fn |-> "seds_router_log_ts", r |-> w1.g_router.r,
                               ty |-> REQUEST, ts |-> t1.v,
                               data |-> <<t1.w.g_timesync_seq, t1.v>>]),
               v |-> res]

telemetry_timesync_announce(w, e, cur, res, priority, unix_ms) ==
  IF ~TELEMETRY_TIME_MASTER THEN [w |-> w, v |-> "SEDS_OK"]
  ELSE
    LET i == EnsureRouter(w, e)
    IN  IF i.v # "SEDS_OK" THEN [w |-> i.w, v |-> "SEDS_ERR"]
        ELSE
          LET t == tx_raw_now_ms(i.w, cur)
          IN  [w |-> Call(t.w, [fn |-> "seds_router_log_ts", r |-> t.w.g_router.r,
                                ty |-> ANNOUNCE, ts |-> t.v,
                                data |-> <<priority, unix_ms>>]),
               v |-> res]

\* Mutation: the absolute-time write clears the validity flag.
telemetry_set_unix_time_ms_clear(w, cur, unix_ms) ==
  IF TELEMETRY_TIME_MASTER
  THEN LET now == telemetry_now_ms(w, cur)
       IN  [w |-> [now.w EXCEPT !.g_unix_base_ms = unix_ms - now.v,
                                !.g_unix_valid = 1 - @],
            v |-> "void"]
  ELSE [w |-> w, v |-> "void"]

telemetry_set_unix_time_ms(w, cur, unix_ms) ==
  IF TELEMETRY_TIME_MASTER
  THEN LET now == telemetry_now_ms(w, cur)
       IN  [w |-> [now.w EXCEPT !.g_unix_base_ms = unix_ms - now.v,
                                !.g_unix_valid = 1],
            v |-> "void"]
  ELSE [w |-> w, v |-> "void"]

UnixTimes == {1000, 5000}

Priorities == {0, 1}

(* -------------------------------- actions ------------------------------- *)

\* A step of the node: operation x took the program from World to x.w.
Step(x) ==
  /\ InBounds(x.w)
  /\ Becomes(x.w)
  /\ UNCHANGED <<cand, napplied, est, ctx>>

Init_telemetry_router ==
  \E e \in InitEnvs(World) : Step(init_telemetry_router(World, e))

Log_telemetry_synchronous ==
  \E e \in InitEnvs(World), a \in LogArgs :
    \E res \in (IF BadLogArgs(a) THEN {"SEDS_OK"} ELSE RouterResults) :
      Step(log_telemetry_synchronous(World, e, res, a))

Log_telemetry_asynchronous ==
  \E e \in InitEnvs(World), a \in LogArgs :
    \E res \in (IF BadLogArgs(a) THEN {"SEDS_OK"} ELSE RouterResults) :
      Step(log_telemetry_asynchronous(World, e, res, a))

Log_error_asyncronous ==
  \E e \in InitEnvs(World), m \in ErrMsgs, res \in RouterResults :
    Step(log_error_asyncronous(World, e, res, m))

Log_error_syncronous ==
  \E e \in InitEnvs(World), m \in ErrMsgs, res \in RouterResults :
    Step(log_error_syncronous(World, e, res, m))

Dispatch_tx_queue ==
  \E e \in InitEnvs(World), res \in RouterResults :
    Step(dispatch_tx_queue(World, e, res))

Process_rx_queue ==
  \E e \in InitEnvs(World), res \in RouterResults :
    Step(process_rx_queue(World, e, res))

Dispatch_tx_queue_timeout ==
  \E e \in InitEnvs(World), res \in RouterResults :
    Step(dispatch_tx_queue_timeout(World, e, res))

Process_rx_queue_timeout ==
  \E e \in InitEnvs(World), res \in RouterResults :
    Step(process_rx_queue_timeout(World, e, res))

Process_all_queues_timeout ==
  \E e \in InitEnvs(World), res \in RouterResults :
    Step(process_all_queues_timeout(World, e, res))

\* The CAN driver invokes the callback once the subscription succeeded.
Telemetry_can_rx ==
  /\ g_can_rx_subscribed = 1
  /\ \E e \in InitEnvs(World), b \in RxBytes : Step(telemetry_can_rx(World, e, b))

\* The answers on_timesync draws for packet pkt: [cur, cur2, res], the
\* readings of tx_time_get() in call order and the result of
\* seds_router_log_ts, each drawn only if the handler makes the call.
TimesyncEnvs(pkt) ==
  IF pkt.null THEN {NoSyncEnv}
  ELSE IF pkt.ty = RESPONSE /\ pkt.payload_len >= RESPONSE_MIN_LEN
  THEN [cur : TickReadings, cur2 : {0}, res : {"SEDS_OK"}]
  ELSE IF pkt.ty = REQUEST /\ pkt.payload_len >= REQUEST_MIN_LEN
          /\ TELEMETRY_TIME_MASTER
  THEN [cur : TickReadings, cur2 : TickReadings, res : RouterResults]
  ELSE IF pkt.ty = ANNOUNCE /\ pkt.payload_len >= ANNOUNCE_MIN_LEN
          /\ ~TELEMETRY_TIME_MASTER
  THEN [cur : TickReadings, cur2 : {0}, res : {"SEDS_OK"}]
  ELSE {NoSyncEnv}

\* The router invokes the time-sync endpoint handler it was created with.
On_timesync ==
  /\ g_router.r # NULL
  /\ \E pkt \in Packets : \E t \in TimesyncEnvs(pkt) :
       Step(on_timesync(World, pkt, t.cur, t.cur2, t.res))

Telemetry_timesync_request ==
  \E e \in InitEnvs(World), cur \in TickReadings, res \in RouterResults :
    Step(telemetry_timesync_request(World, e, cur, res))

Telemetry_timesync_announce ==
  \E e \in InitEnvs(World), cur \in TickReadings, res \in RouterResults,
     priority \in Priorities, unix_ms \in UnixTimes :
    Step(telemetry_timesync_announce(World, e, cur, res, priority, unix_ms))

Telemetry_set_unix_time_ms ==
  \E cur \in TickReadings, unix_ms \in UnixTimes :
    Step(telemetry_set_unix_time_ms(World, cur, unix_ms))

Tx_raw_now_ms ==
  \E cur \in TickReadings : Step(tx_raw_now_ms(World, cur))

Telemetry_unix_ms ==
  \E cur \in TickReadings : Step(telemetry_unix_ms(World, cur))

\* The router reads the clock it was created with.
Node_now_since_ms ==
  /\ g_router.r # NULL
  /\ \E cur \in TickReadings : Step(node_now_since_ms(World, cur))

(* ----------------------------- specification ---------------------------- *)

Boot ==
  /\ last_ticks32 = 0
  /\ high = 0
  /\ g_master_offset_ms = 0
  /\ g_last_delay_ms = 0
  /\ g_unix_base_ms = 0
  /\ g_unix_valid = 0
  /\ g_router = [r |-> NULL, created |-> 0, start_time |-> 0]
  /\ g_can_rx_subscribed = 0
  /\ g_can_side_id = -1
  /\ g_timesync_seq = 1
  /\ routers = 0
  /\ sides = 0
  /\ nsync = 0

\* est and ctx outside SpecEstimator and SpecRace.
NoEst == [t1 |-> 0, t2 |-> 0, t3 |-> 0, t4 |-> 0, out |-> <<>>]

NoCtx == <<>>

Init ==
  /\ TELEMETRY_TIME_MASTER \in BOOLEAN
  /\ Boot
  /\ cand = 0
  /\ napplied = 0
  /\ est = NoEst
  /\ ctx = NoCtx

Next ==
  \/ Init_telemetry_router
  \/ Log_telemetry_synchronous
  \/ Log_telemetry_asynchronous
  \/ Log_error_asyncronous
  \/ Log_error_syncronous
  \/ Dispatch_tx_queue
  \/ Process_rx_queue
  \/ Dispatch_tx_queue_timeout
  \/ Process_rx_queue_timeout
  \/ Process_all_queues_timeout
  \/ Telemetry_can_rx
  \/ On_timesync
  \/ Telemetry_timesync_request
  \/ Telemetry_timesync_announce
  \/ Telemetry_set_unix_time_ms
  \/ Tx_raw_now_ms
  \/ Telemetry_unix_ms
  \/ Node_now_since_ms

Spec == Init /\ [][Next]_vars

(* SpecApply: client_apply_offset_ms driven with one constant candidate,   *)
(* starting from g_master_offset_ms = 0 on a client.                       *)

Candidates ==
  (-CandSmall .. CandSmall) \cup {-1000, 1000}
  \cup ((NET_TIMESYNC_MAX_STEP_MS - CandSlack) .. (NET_TIMESYNC_MAX_STEP_MS + CandSlack))
  \cup ((-NET_TIMESYNC_MAX_STEP_MS - CandSlack) .. (-NET_TIMESYNC_MAX_STEP_MS + CandSlack))

InitApply ==
  /\ TELEMETRY_TIME_MASTER = FALSE
  /\ Boot
  /\ cand \in Candidates
  /\ napplied = 0
  /\ est = NoEst
  /\ ctx = NoCtx

Client_apply_offset_ms ==
  /\ napplied < MaxApply
  /\ Becomes(client_apply_offset_ms(World, cand))
  /\ napplied' = napplied + 1
  /\ UNCHANGED <<cand, est, ctx>>

SpecApply == InitApply /\ [][Client_apply_offset_ms]_vars

(* SpecEstimator: compute_offset_delay applied to every choice of four     *)
(* timestamps in 0 .. EstMax.                                              *)

InitEstimator ==
  /\ TELEMETRY_TIME_MASTER = FALSE
  /\ Boot
  /\ cand = 0
  /\ napplied = 0
  /\ est \in [t1 : 0 .. EstMax, t2 : 0 .. EstMax, t3 : 0 .. EstMax,
              t4 : 0 .. EstMax, out : {<<>>}]
  /\ ctx = NoCtx

Compute_offset_delay ==
  /\ est.out = <<>>
  /\ est' = [est EXCEPT !.out = compute_offset_delay(est.t1, est.t2, est.t3,
                                                     est.t4)]
  /\ Becomes(World)
  /\ UNCHANGED <<cand, napplied, ctx>>

SpecEstimator == InitEstimator /\ [][Compute_offset_delay]_vars

(* SpecLoop: a client and a master whose raw clock is ahead of the         *)
(* client's by the constant cand.  One exchange is the client's            *)
(* telemetry_timesync_request, the master's reply to it and the client's   *)
(* handling of that RESPONSE; a message takes way ms in either direction   *)
(* and the master spends served ms between its two clock readings.         *)

LoopOffsets == {1, 3, 5, 19, 1000, NET_TIMESYNC_MAX_STEP_MS, -1, -19, -400}

LoopWays == {0, 5}

LoopServed == {0, 1}

InitLoop ==
  /\ TELEMETRY_TIME_MASTER = FALSE
  /\ Boot
  /\ cand \in LoopOffsets
  /\ napplied = 0
  /\ est = NoEst
  /\ ctx = NoCtx

Exchange ==
  /\ napplied < MaxApply
  /\ \E e \in InitEnvs(World), way \in LoopWays, served \in LoopServed :
       LET cur1 == last_ticks32 + LoopGap
           rq   == telemetry_timesync_request(World, [e EXCEPT !.cur = cur1],
                                              cur1, "SEDS_OK")
       IN  /\ rq.w.g_router.r # NULL
           /\ LET req  == rq.w.calls[Len(rq.w.calls)].data
                  t2   == req[2] + way + cand
                  t3   == t2 + served
                  pkt  == [null |-> FALSE, ty |-> RESPONSE,
                           payload_len |-> RESPONSE_MIN_LEN,
                           f |-> RespPayload(req[1], req[2], t2, t3)]
                  cur4 == cur1 + way + served + way
                  rs   == on_timesync([rq.w EXCEPT !.calls = <<>>], pkt, cur4,
                                      cur4, "SEDS_OK")
              IN  Becomes(rs.w)
  /\ napplied' = napplied + 1
  /\ UNCHANGED <<cand, est, ctx>>

SpecLoop == InitLoop /\ [][Exchange]_vars

(* SpecRace: the main loop and the receive callback as two contexts that   *)
(* run init_telemetry_router statement by statement, in any interleaving.  *)
(* ctx[c].pc is the statement context c executes next, ctx[c].r its local  *)
(* variable r.  Nothing in the source orders the two contexts.             *)

Contexts == {"main", "callback"}

RaceInit ==
  /\ TELEMETRY_TIME_MASTER \in BOOLEAN
  /\ Boot
  /\ cand = 0
  /\ napplied = 0
  /\ est = NoEst
  /\ ctx = [c \in Contexts |-> [pc |-> "idle", r |-> NULL]]

\* Context c moves to statement pc with local r; the program's objects
\* become those of world w.
Goto(c, pc, r, w) ==
  /\ ctx' = [ctx EXCEPT ![c] = [pc |-> pc, r |-> r]]
  /\ Becomes(w)
  /\ UNCHANGED <<cand, napplied, est>>

\* An entry point finds no router: if (!g_router.r) init_telemetry_router().
\* The bus invokes the callback only once it is subscribed.
RaceEnter(c) ==
  /\ ctx[c].pc = "idle"
  /\ g_router.r = NULL
  /\ c = "callback" => g_can_rx_subscribed = 1
  /\ Goto(c, "check", NULL, World)

\* if (g_router.created && g_router.r) return SEDS_OK;
RaceCheck(c) ==
  /\ ctx[c].pc = "check"
  /\ IF g_router.created = 1 /\ g_router.r # NULL
     THEN Goto(c, "idle", NULL, World)
     ELSE Goto(c, "subscribe", NULL, World)

RaceSubscribe(c) ==
  /\ ctx[c].pc = "subscribe"
  /\ \E sub \in (IF g_can_rx_subscribed = 0 THEN BOOLEAN ELSE {TRUE}) :
       Goto(c, "new", NULL, init_subscribe(World, [NoInitEnv EXCEPT !.sub = sub]))

RaceNew(c) ==
  /\ ctx[c].pc = "new"
  /\ \E rnew \in BOOLEAN :
       LET n == init_router_new(World, [NoInitEnv EXCEPT !.rnew = rnew])
       IN  /\ n.w.routers <= MaxRouters
           /\ Goto(c, IF n.v = NULL THEN "failed" ELSE "side", n.v, n.w)

RaceFailed(c) ==
  /\ ctx[c].pc = "failed"
  /\ Goto(c, "idle", NULL, init_failed(World))

RaceSide(c) ==
  /\ ctx[c].pc = "side"
  /\ \E side \in {-2, 0} :
       Goto(c, "publish", ctx[c].r,
            init_add_side(World, ctx[c].r, [NoInitEnv EXCEPT !.side = side]))

RacePublish(c) ==
  /\ ctx[c].pc = "publish"
  /\ \E cur \in InitReadings :
       Goto(c, "idle", NULL,
            init_publish(World, ctx[c].r, [NoInitEnv EXCEPT !.cur = cur]))

RaceNext ==
  \E c \in Contexts :
    \/ RaceEnter(c)
    \/ RaceCheck(c)
    \/ RaceSubscribe(c)
    \/ RaceNew(c)
    \/ RaceFailed(c)
    \/ RaceSide(c)
    \/ RacePublish(c)

SpecRace == RaceInit /\ [][RaceNext]_vars

(* ================================ claims ================================ *)

Max(a, b) == IF a > b THEN a ELSE b

Min(a, b) == IF a < b THEN a ELSE b

Sign(x) == IF x > 0 THEN 1 ELSE IF x < 0 THEN -1 ELSE 0

\* Time-Sync State of a world: SyncOffsetMs, LastDelayMs, UnixBase, validity.
SyncState(w) ==
  <<w.g_master_offset_ms, w.g_last_delay_ms, w.g_unix_base_ms, w.g_unix_valid>>

\* RouterState of a world is uncreated.
Uncreated(w) == w.g_router.r = NULL /\ w.g_router.created = 0

\* The value tx_raw_now_ms returned last in world w.
RawOf(w) == ((w.high + w.last_ticks32) * 1000) \div TX_TIMER_TICKS_PER_SECOND

\* Router calls that enqueue or deliver a record.
EnqueueFns == {"seds_router_log_typed_ex", "seds_router_log_ts",
               "seds_router_log_string_ex",
               "seds_router_rx_serialized_packet_to_queue",
               "seds_router_rx_serialized_packet_to_queue_from_side"}

NoEnqueue(cs) == \A i \in DOMAIN cs : cs[i].fn \notin EnqueueFns

\* cand has not been passed: the offset lies between 0 and cand.
NotPassed(off) == IF cand >= 0 THEN 0 <= off /\ off <= cand
                  ELSE cand <= off /\ off <= 0

\* The step s(c): c / SMOOTH_DIV truncated toward zero, or the unit step.
StepOf(c) ==
  IF Abs(c) < NET_TIMESYNC_SMOOTH_DIV THEN Sign(c)
  ELSE Sign(c) * (Abs(c) \div NET_TIMESYNC_SMOOTH_DIV)

\* Applications of cand that stay on the near side of cand.
Reach == Abs(cand) \div Abs(StepOf(cand))

(* C1 as stated: applying the same candidate C (|C| <= MAX_STEP_MS)        *)
(* repeatedly from SyncOffsetMs = 0 never increases |C - SyncOffsetMs| and *)
(* never takes SyncOffsetMs past C.                                        *)
C1_AsStated ==
  [][Abs(cand) <= NET_TIMESYNC_MAX_STEP_MS =>
       /\ Abs(cand - g_master_offset_ms') <= Abs(cand - g_master_offset_ms)
       /\ NotPassed(g_master_offset_ms')]_vars

(* What repeated application does: every application adds the same step   *)
(* s(C), so SyncOffsetMs is k * s(C) after k applications; it approaches C *)
(* without passing it during the first |C| / |s(C)| applications (at least *)
(* min(SMOOTH_DIV, |C|) of them); every later application leaves it past   *)
(* C, and once past C each application takes it further away.              *)
C1_StepwiseApproach ==
  [][(Abs(cand) <= NET_TIMESYNC_MAX_STEP_MS /\ cand # 0) =>
       /\ g_master_offset_ms' = napplied' * StepOf(cand)
       /\ Reach >= Min(NET_TIMESYNC_SMOOTH_DIV, Abs(cand))
       /\ napplied' <= Reach =>
            /\ Abs(cand - g_master_offset_ms') <= Abs(cand - g_master_offset_ms)
            /\ NotPassed(g_master_offset_ms')
       /\ napplied' > Reach => ~NotPassed(g_master_offset_ms')
       /\ napplied > Reach =>
            Abs(cand - g_master_offset_ms') > Abs(cand - g_master_offset_ms)]_vars

\* C = 1000 reached after four applications and passed by the fifth.
C1_Witness == cand = 1000 /\ napplied = 5 /\ g_master_offset_ms = 1250

(* C7: apply_offset leaves SyncOffsetMs unchanged for |candidate| >        *)
(* MAX_STEP_MS and for candidate 0; for any other candidate the change has *)
(* the candidate's sign and a magnitude >= 1, <= |candidate| and           *)
(* <= MAX_STEP_MS / SMOOTH_DIV.                                            *)
C7_StepBounded ==
  [][LET d == g_master_offset_ms' - g_master_offset_ms
     IN  IF Abs(cand) > NET_TIMESYNC_MAX_STEP_MS \/ cand = 0 THEN d = 0
         ELSE /\ Sign(d) = Sign(cand)
              /\ Abs(d) >= 1
              /\ Abs(d) <= Abs(cand)
              /\ Abs(d) <= NET_TIMESYNC_MAX_STEP_MS \div NET_TIMESYNC_SMOOTH_DIV]_vars

\* The largest accepted candidate has been applied on top of an earlier step.
C7_Witness ==
  /\ cand = -NET_TIMESYNC_MAX_STEP_MS
  /\ napplied = 2
  /\ g_master_offset_ms = -2 * (NET_TIMESYNC_MAX_STEP_MS \div NET_TIMESYNC_SMOOTH_DIV)

\* A packet shorter than the minimum payload length of its type.
ShortPacket(pkt) ==
  /\ ~pkt.null
  /\ \/ pkt.ty = RESPONSE /\ pkt.payload_len < 32
     \/ pkt.ty = REQUEST /\ pkt.payload_len < 16
     \/ pkt.ty = ANNOUNCE /\ pkt.payload_len < 16

\* A well-formed packet of type ty.
WellFormed(pkt, ty) ==
  /\ ~pkt.null
  /\ pkt.ty = ty
  /\ pkt.payload_len >= (IF ty = RESPONSE THEN 32 ELSE 16)

(* C2 as stated: in every reachable state, log_telemetry_synchronous and   *)
(* log_telemetry_asynchronous called with null data, element_count = 0 or  *)
(* element_size = 0 return SEDS_BAD_ARG and make no enqueue call.          *)
C2_AsStated ==
  \A e \in InitEnvs(World), a \in LogArgs :
    BadLogArgs(a) =>
      LET s == log_telemetry_synchronous(World, e, "SEDS_OK", a)
          q == log_telemetry_asynchronous(World, e, "SEDS_OK", a)
      IN  /\ s.v = "SEDS_BAD_ARG" /\ NoEnqueue(s.w.calls)
          /\ q.v = "SEDS_BAD_ARG" /\ NoEnqueue(q.w.calls)

(* C2 amended: with null data, element_count = 0 or element_size = 0 both  *)
(* logging entry points make no enqueue call; they return SEDS_BAD_ARG     *)
(* when the router exists or the call creates it, and SEDS_ERR when the    *)
(* router does not exist and seds_router_new fails.                        *)
C2_BadArgsNeverEnqueued ==
  \A e \in InitEnvs(World), a \in LogArgs :
    BadLogArgs(a) =>
      LET s == log_telemetry_synchronous(World, e, "SEDS_OK", a)
          q == log_telemetry_asynchronous(World, e, "SEDS_OK", a)
          expected == IF g_router.r # NULL \/ e.rnew THEN "SEDS_BAD_ARG"
                      ELSE "SEDS_ERR"
      IN  /\ s.v = expected /\ NoEnqueue(s.w.calls)
          /\ q.v = expected /\ NoEnqueue(q.w.calls)

\* After a failed creation (subscribed, no router) a further failure makes
\* a bad-argument call return SEDS_ERR; the router is still not created.
C2_Witness ==
  /\ g_router.r = NULL
  /\ g_can_rx_subscribed = 1
  /\ \E e \in InitEnvs(World), a \in LogArgs :
       /\ BadLogArgs(a)
       /\ log_telemetry_asynchronous(World, e, "SEDS_OK", a).v = "SEDS_ERR"
       /\ Uncreated(log_telemetry_asynchronous(World, e, "SEDS_OK", a).w)

(* C3 as stated: if the bus subscription, the router creation or the       *)
(* attaching of the CAN side fails, init_telemetry_router returns a        *)
(* failure and leaves RouterState uncreated; RouterState is marked created *)
(* only when exactly one transport side is attached.                       *)
C3_AsStated ==
  /\ \A e \in InitEnvs(World) :
       (/\ ~(g_router.created = 1 /\ g_router.r # NULL)
        /\ \/ g_can_rx_subscribed = 0 /\ ~e.sub
           \/ ~e.rnew
           \/ e.side < 0)
       => LET x == init_telemetry_router(World, e)
          IN  x.v # "SEDS_OK" /\ Uncreated(x.w)
  /\ g_router.created = 1 => sides = 1

(* C4 as stated: on a master, a RESPONSE of any length and content changes *)
(* none of SyncOffsetMs, LastDelayMs, UnixBase and its validity flag and   *)
(* sends no message.                                                       *)
C4_AsStated ==
  (TELEMETRY_TIME_MASTER /\ g_router.r # NULL) =>
    \A pkt \in Packets, cur \in TickReadings :
      (~pkt.null /\ pkt.ty = RESPONSE) =>
        LET x == on_timesync(World, pkt, cur, cur, "SEDS_OK")
        IN  SyncState(x.w) = SyncState(World) /\ x.w.calls = <<>>

(* C5: a time-sync message shorter than its minimum payload length         *)
(* (RESPONSE < 32, REQUEST < 16, ANNOUNCE < 16 bytes) changes none of      *)
(* SyncOffsetMs, LastDelayMs, UnixBase and its validity flag in either     *)
(* role, sends no message and returns SEDS_OK.                             *)
C5_ShortPacketDropped ==
  \A pkt \in Packets, cur \in TickReadings, cur2 \in TickReadings,
     res \in RouterResults :
    ShortPacket(pkt) =>
      LET x == on_timesync(World, pkt, cur, cur2, res)
      IN  /\ SyncState(x.w) = SyncState(World)
          /\ x.w.calls = <<>>
          /\ x.v = "SEDS_OK"

\* A client holding a non-trivial Time-Sync State is handed a 31-byte
\* RESPONSE and keeps its state.
C5_Witness ==
  /\ ~TELEMETRY_TIME_MASTER
  /\ g_router.r # NULL
  /\ g_master_offset_ms = -1
  /\ g_last_delay_ms = 23
  /\ g_unix_valid = 1
  /\ \E pkt \in Packets :
       /\ pkt.ty = RESPONSE /\ pkt.payload_len = 31 /\ ~pkt.null
       /\ SyncState(on_timesync(World, pkt, 1025, 1025, "SEDS_OK").w)
            = SyncState(World)

\* Readings tried after the last one: the extremes of the counter, those
\* next to the last reading, and the readings of the runs.
NextReadings ==
  ({0, TickModulus - 1, last_ticks32 - 1, last_ticks32, last_ticks32 + 1}
     \cup TickReadings) \cap (0 .. (TickModulus - 1))

(* C6: whatever 32-bit reading the tick counter returns next (smaller      *)
(* readings, i.e. wraps, included), tx_raw_now_ms returns a value no       *)
(* smaller than the one it returned last.                                  *)
C6_RawClockMonotone ==
  \A cur32 \in NextReadings :
    tx_raw_now_ms(World, cur32).v >= RawNow

\* The tick counter has wrapped from 1025 back to 505.
C6_Witness ==
  /\ high = TickModulus
  /\ last_ticks32 = 505
  /\ RawNow > (1025 * 1000) \div TX_TIMER_TICKS_PER_SECOND

(* C8: on a client every well-formed RESPONSE (payload >= 32 bytes) sets   *)
(* LastDelayMs to max(0, (t4 - t1) - (t3 - t2)) with t4 the raw time at    *)
(* receipt, whether the estimated offset ((t2 - t1) + (t3 - t4)) / 2 is    *)
(* applied or discarded, and changes SyncOffsetMs by exactly the           *)
(* apply_offset step of that offset; with SyncOffsetMs = 0,                *)
(* RESPONSE(t1 = 1000, t2 = 1010, t3 = 1012) received at t4 = 1025 yields  *)
(* SyncOffsetMs = -1 and LastDelayMs = 23.                                 *)
C8_ResponseApplied ==
  ~TELEMETRY_TIME_MASTER =>
    \A pkt \in Packets, cur \in TickReadings :
      WellFormed(pkt, RESPONSE) =>
        LET x  == on_timesync(World, pkt, cur, cur, "SEDS_OK")
            t1 == pkt.f[2]
            t2 == pkt.f[3]
            t3 == pkt.f[4]
            t4 == RawOf(x.w)
            o  == CDiv((t2 - t1) + (t3 - t4), 2)
            step == IF Abs(o) > NET_TIMESYNC_MAX_STEP_MS THEN 0 ELSE StepOf(o)
        IN  /\ x.v = "SEDS_OK"
            /\ x.w.g_last_delay_ms = Max(0, (t4 - t1) - (t3 - t2))
            /\ x.w.g_master_offset_ms = g_master_offset_ms + step
            /\ (g_master_offset_ms = 0 /\ t1 = 1000 /\ t2 = 1010 /\ t3 = 1012
                /\ t4 = 1025)
               => (x.w.g_master_offset_ms = -1 /\ x.w.g_last_delay_ms = 23)

\* The client has received RESPONSE(1000, 1010, 1012) at raw time 1025.
C8_Witness ==
  /\ ~TELEMETRY_TIME_MASTER
  /\ nsync = 1
  /\ RawNow = 1025
  /\ g_master_offset_ms = -1
  /\ g_last_delay_ms = 23
  /\ g_unix_valid = 0

(* C9: on a master every well-formed REQUEST(sequence, t1) received at raw *)
(* time T hands exactly one RESPONSE to the router, with payload           *)
(* (sequence, t1, t2, t3) where sequence and t1 are echoed, t2 = T and     *)
(* t3 >= t2, stamped with t3; the master's Time-Sync State is unchanged.   *)
C9_RequestAnswered ==
  (TELEMETRY_TIME_MASTER /\ g_router.r # NULL) =>
    \A pkt \in Packets, cur \in TickReadings, cur2 \in TickReadings,
       res \in RouterResults :
      WellFormed(pkt, REQUEST) =>
        LET x == on_timesync(World, pkt, cur, cur2, res)
            T == IF cur < last_ticks32
                 THEN ((high + TickModulus + cur) * 1000) \div TX_TIMER_TICKS_PER_SECOND
                 ELSE ((high + cur) * 1000) \div TX_TIMER_TICKS_PER_SECOND
        IN  /\ Len(x.w.calls) = 1
            /\ x.w.calls[1].fn = "seds_router_log_ts"
            /\ x.w.calls[1].r = g_router.r
            /\ x.w.calls[1].ty = RESPONSE
            /\ x.w.calls[1].data[1] = pkt.f[1]
            /\ x.w.calls[1].data[2] = pkt.f[2]
            /\ x.w.calls[1].data[3] = T
            /\ x.w.calls[1].data[4] >= x.w.calls[1].data[3]
            /\ x.w.calls[1].data[4] = RawOf(x.w)
            /\ x.w.calls[1].ts = x.w.calls[1].data[4]
            /\ x.v = res
            /\ SyncState(x.w) = SyncState(World)

\* A master whose router exists answers REQUEST(7, 500) received at raw
\* time 505 with RESPONSE(7, 500, 505, t3), t3 read after a counter wrap.
C9_Witness ==
  /\ TELEMETRY_TIME_MASTER
  /\ g_router.r # NULL
  /\ g_unix_valid = 1
  /\ \E pkt \in Packets :
       /\ WellFormed(pkt, REQUEST)
       /\ pkt.f[1] = 7 /\ pkt.f[2] = 500
       /\ LET c == on_timesync(World, pkt, 1025, 505, "SEDS_OK").w.calls[1]
          IN  c.data[1] = 7 /\ c.data[2] = 500 /\ c.data[3] = 1025
              /\ c.data[4] = 1025 + 505 + (TickModulus - 1025)

\* The step from World is a master's telemetry_set_unix_time_ms.
IsSetUnixTime ==
  /\ TELEMETRY_TIME_MASTER
  /\ \E cur \in TickReadings, unix_ms \in UnixTimes :
       Becomes(telemetry_set_unix_time_ms(World, cur, unix_ms).w)

\* The step from World is a client's handling of a well-formed ANNOUNCE.
IsAnnounceLearned ==
  /\ ~TELEMETRY_TIME_MASTER
  /\ \E pkt \in Packets, cur \in TickReadings :
       /\ WellFormed(pkt, ANNOUNCE)
       /\ Becomes(on_timesync(World, pkt, cur, cur, "SEDS_OK").w)

(* C10: once the UnixBase validity flag is true no operation makes it      *)
(* false, and it becomes true only by telemetry_set_unix_time_ms on a      *)
(* master or by a well-formed ANNOUNCE on a client.                        *)
C10_ValidityMonotone ==
  [][/\ g_unix_valid = 1 => g_unix_valid' = 1
     /\ (g_unix_valid = 0 /\ g_unix_valid' = 1)
        => (IsSetUnixTime \/ IsAnnounceLearned)]_vars

\* A client learned UnixBase from an ANNOUNCE at raw time 505 and has
\* since acted on a RESPONSE; the flag is still set.
C10_Witness ==
  /\ ~TELEMETRY_TIME_MASTER
  /\ g_unix_valid = 1
  /\ g_unix_base_ms = 1000 - 505
  /\ nsync = 1
  /\ g_last_delay_ms = 23

(* C11: once init_telemetry_router has succeeded (RouterState created with *)
(* a router), no operation makes a further router, attaches a further      *)
(* side or changes g_router.r, g_router.created or g_router.start_time,    *)
(* and a further init_telemetry_router call makes no collaborator call and *)
(* returns SEDS_OK; a run makes at most one router and attaches at most    *)
(* one side.                                                               *)
C11_InitIdempotent ==
  /\ [](routers <= 1 /\ sides <= 1)
  /\ []((g_router.created = 1 /\ g_router.r # NULL) =>
          \A e \in InitEnvs(World) :
            /\ init_telemetry_router(World, e).w = World
            /\ init_telemetry_router(World, e).v = "SEDS_OK")
  /\ [][(g_router.created = 1 /\ g_router.r # NULL) =>
          (g_router' = g_router /\ routers' = routers /\ sides' = sides)]_vars

\* A client made its router at raw time 505 without a transport side and
\* has since sent a REQUEST and seen the tick counter wrap.
C11_Witness ==
  /\ ~TELEMETRY_TIME_MASTER
  /\ g_router = [r |-> 1, created |-> 1, start_time |-> 505]
  /\ routers = 1 /\ sides = 0
  /\ g_timesync_seq = 2
  /\ high = TickModulus


(* C12 as stated: every record log_error_syncronous and                    *)
(* log_error_asyncronous hand to the router has a length of at most 512    *)
(* and of at most the characters written to the local buffer, whatever the *)
(* formatted length of the message; on a formatting failure they hand it   *)
(* one empty record.                                                       *)
C12_AsStated ==
  \A e \in InitEnvs(World), m \in ErrMsgs, q \in {0, 1} :
    LET x == LogError(World, e, "SEDS_OK", m, q)
    IN  x.v = "SEDS_OK" =>
          /\ Len(x.w.calls) >= 1
          /\ LET c == x.w.calls[Len(x.w.calls)]
             IN  /\ c.fn = "seds_router_log_string_ex"
                 /\ c.len <= LOG_ERROR_MAX_LEN
                 /\ c.len <= c.buf
                 /\ (m.fail1 \/ m.fail2) => c.len = 0


(* C13: on a master SyncOffsetMs is 0 in every reachable state.            *)
C13_MasterOffsetZero == TELEMETRY_TIME_MASTER => g_master_offset_ms = 0

\* A master with a router has set the absolute time and has handled the
\* RESPONSE (1000, 1010, 1012) at raw time 1025.
C13_Witness ==
  /\ TELEMETRY_TIME_MASTER
  /\ g_router.r # NULL
  /\ g_unix_valid = 1
  /\ g_last_delay_ms = 23
  /\ RawNow = 1025
  /\ g_master_offset_ms = 0


\* The messages an operation handed to the router with seds_router_log_ts.
Sent(cs) == SelectSeq(cs, LAMBDA c : c.fn = "seds_router_log_ts")

\* The step from World is a client's telemetry_timesync_request.
IsRequest ==
  /\ ~TELEMETRY_TIME_MASTER
  /\ \E e \in InitEnvs(World), cur \in TickReadings :
       Becomes(telemetry_timesync_request(World, e, cur, "SEDS_OK").w)

(* C14 as stated: telemetry_timesync_request on a master and               *)
(* telemetry_timesync_announce on a client send nothing and change no      *)
(* state; on a client each telemetry_timesync_request hands one REQUEST    *)
(* (sequence, t1 = raw time) to the router, the sequence numbers           *)
(* increasing by one; on a master each telemetry_timesync_announce hands   *)
(* one ANNOUNCE (priority, unix_ms) to the router.                         *)
C14_AsStated ==
  \A e \in InitEnvs(World), cur \in TickReadings, res \in RouterResults,
     priority \in Priorities, unix_ms \in UnixTimes :
    LET rq == telemetry_timesync_request(World, e, cur, res)
        an == telemetry_timesync_announce(World, e, cur, res, priority, unix_ms)
    IN  IF TELEMETRY_TIME_MASTER
        THEN /\ rq.w = World
             /\ Len(Sent(an.w.calls)) = 1
             /\ Sent(an.w.calls)[1].ty = ANNOUNCE
             /\ Sent(an.w.calls)[1].data = <<priority, unix_ms>>
        ELSE /\ an.w = World
             /\ Len(Sent(rq.w.calls)) = 1
             /\ Sent(rq.w.calls)[1].ty = REQUEST
             /\ Sent(rq.w.calls)[1].data = <<g_timesync_seq, RawOf(rq.w)>>
             /\ rq.w.g_timesync_seq = g_timesync_seq + 1

(* C14 amended: as stated when the router exists or seds_router_new makes  *)
(* it during the call; when the router does not exist and seds_router_new  *)
(* fails, the client's request and the master's announce hand nothing to   *)
(* the router, return SEDS_ERR and use up no sequence number.  The         *)
(* sequence number changes in no other operation.                          *)
C14_RoleGated ==
  /\ [](\A e \in InitEnvs(World), cur \in TickReadings, res \in RouterResults,
           priority \in Priorities, unix_ms \in UnixTimes :
          LET rq == telemetry_timesync_request(World, e, cur, res)
              an == telemetry_timesync_announce(World, e, cur, res, priority,
                                                unix_ms)
              router == g_router.r # NULL \/ e.rnew
          IN  IF TELEMETRY_TIME_MASTER
              THEN /\ rq.w = World /\ rq.v = "SEDS_OK"
                   /\ router =>
                        /\ Len(Sent(an.w.calls)) = 1
                        /\ Sent(an.w.calls)[1].ty = ANNOUNCE
                        /\ Sent(an.w.calls)[1].data = <<priority, unix_ms>>
                        /\ an.v = res
                   /\ ~router =>
                        /\ Sent(an.w.calls) = <<>> /\ an.v = "SEDS_ERR"
              ELSE /\ an.w = World /\ an.v = "SEDS_OK"
                   /\ router =>
                        /\ Len(Sent(rq.w.calls)) = 1
                        /\ Sent(rq.w.calls)[1].ty = REQUEST
                        /\ Sent(rq.w.calls)[1].data =
                             <<g_timesync_seq, RawOf(rq.w)>>
                        /\ rq.w.g_timesync_seq = g_timesync_seq + 1
                        /\ rq.v = res
                   /\ ~router =>
                        /\ Sent(rq.w.calls) = <<>> /\ rq.v = "SEDS_ERR"
                        /\ rq.w.g_timesync_seq = g_timesync_seq)
  /\ [][g_timesync_seq' # g_timesync_seq => IsRequest]_vars

\* A client has sent REQUEST number 1 at raw time 1025; the next carries 2.
C14_Witness ==
  /\ ~TELEMETRY_TIME_MASTER
  /\ g_router.r # NULL
  /\ g_timesync_seq = 2
  /\ RawNow = 1025
  /\ Sent(telemetry_timesync_request(World, NoInitEnv, 1025, "SEDS_OK").w.calls)[1].data
       = <<2, 1025>>


(* C15: for all timestamps t1 .. t4 in 0 .. EstMax, compute_offset_delay   *)
(* returns offset = ((t2 - t1) + (t3 - t4)) / 2 truncated toward zero and  *)
(* delay = max(0, (t4 - t1) - (t3 - t2)), never negative; when the path    *)
(* delay is the same both ways and the clocks differ by O, the offset is   *)
(* within 1 ms of O.                                                       *)
C15_Estimator ==
  est.out # <<>> =>
    LET twice == (est.t2 - est.t1) + (est.t3 - est.t4)
        o == est.out.offset_ms
        d == est.out.delay_ms
    IN  /\ Abs(2 * o) <= Abs(twice)
        /\ Abs(twice) - Abs(2 * o) <= 1
        /\ o # 0 => Sign(o) = Sign(twice)
        /\ d = Max(0, (est.t4 - est.t1) - (est.t3 - est.t2))
        /\ d >= 0
        /\ \A O \in (-EstMax) .. EstMax, way \in 0 .. EstMax, served \in 0 .. EstMax :
             (/\ est.t2 = est.t1 + way + O
              /\ est.t3 = est.t2 + served
              /\ est.t4 = est.t1 + way + served + way)
             => (Abs(o - O) <= 1 /\ d = 2 * way)

\* Clocks 2 ms apart, 1 ms each way, 1 ms at the master: offset 2, delay 2.
C15_Witness ==
  /\ est.t1 = 0 /\ est.t2 = 3 /\ est.t3 = 4 /\ est.t4 = 3
  /\ est.out = [offset_ms |-> 2, delay_ms |-> 2]


(* C16 as stated, its first half: in repeated exchanges between a client   *)
(* and a master whose raw clocks differ by the constant O                  *)
(* (0 < |O| <= MAX_STEP_MS), with the same transit delay both ways, the    *)
(* client's error |O - SyncOffsetMs| never increases from one exchange to  *)
(* the next.                                                               *)
C16_AsStated ==
  [][Abs(cand - g_master_offset_ms') <= Abs(cand - g_master_offset_ms)]_vars

\* What the loop does: every exchange estimates O again, because t4 is the
\* raw time, and adds the same step.
C16_SameStepEveryExchange ==
  [][g_master_offset_ms' = g_master_offset_ms + StepOf(cand)]_vars


(* C17 as stated: in every reachable state in which the bus can invoke the *)
(* receive callback, router created or not, an invocation of               *)
(* telemetry_can_rx changes neither the Time-Sync State nor RouterState    *)
(* (r, created, start_time).                                               *)
C17_AsStated ==
  g_can_rx_subscribed = 1 =>
    \A e \in InitEnvs(World), b \in RxBytes :
      LET x == telemetry_can_rx(World, e, b)
      IN  /\ SyncState(x.w) = SyncState(World)
          /\ x.w.g_router = g_router

\* What holds instead: the callback leaves both alone once the router
\* exists, and never touches the Time-Sync State of a client.
C17_QuietOnceCreated ==
  \A e \in InitEnvs(World), b \in RxBytes :
    LET x == telemetry_can_rx(World, e, b)
    IN  /\ g_router.r # NULL =>
             (SyncState(x.w) = SyncState(World) /\ x.w.g_router = g_router)
        /\ SyncState(x.w) = SyncState(World)


(* C18 as stated: with the receive callback and the main loop in           *)
(* different contexts, both entering while the router does not exist,      *)
(* every interleaving of their steps through init_telemetry_router makes   *)
(* at most one router and attaches at most one side, and g_router.r is     *)
(* never overwritten by a second router.                                   *)
C18_AsStated ==
  /\ routers <= 1
  /\ sides <= 1
  /\ g_router.r \in {NULL, 1}


\* Sequence fields a RESPONSE may carry: that of the REQUEST sent last, the
\* next one, and two that match no REQUEST.
SeqValues == {0, g_timesync_seq - 1, g_timesync_seq, 99}

C20_UnixTime ==
  \A cur \in TickReadings :
    /\ g_unix_valid = 0 => telemetry_unix_ms(World, cur).v = 0
    /\ \A u \in UnixTimes :
         LET s == telemetry_set_unix_time_ms(World, cur, u)
         IN  IF TELEMETRY_TIME_MASTER
             THEN telemetry_unix_ms(s.w, cur).v = u
             ELSE /\ s.w.g_unix_base_ms = g_unix_base_ms
                  /\ s.w.g_unix_valid = g_unix_valid
    /\ \A pkt \in Packets :
         WellFormed(pkt, ANNOUNCE) =>
           LET a == on_timesync(World, pkt, cur, cur, "SEDS_OK")
           IN  IF TELEMETRY_TIME_MASTER
               THEN /\ a.w.g_unix_base_ms = g_unix_base_ms
                    /\ a.w.g_unix_valid = g_unix_valid
               ELSE telemetry_unix_ms(a.w, cur).v
                      = pkt.f[2] + (g_last_delay_ms \div 2)

\* A client with LastDelayMs = 23 learned the time from ANNOUNCE(1000) at
\* raw time 1025 and reads 1011 there.
C20_Witness ==
  /\ ~TELEMETRY_TIME_MASTER
  /\ g_unix_valid = 1
  /\ g_last_delay_ms = 23
  /\ g_master_offset_ms = -1
  /\ g_unix_base_ms = 1011 - 1024
  /\ telemetry_unix_ms(World, last_ticks32).v = 1011


\* What node_now_since_ms returns when called without the tick counter
\* having moved since its last reading.
Elapsed == node_now_since_ms(World, last_ticks32).v

(* C21 as stated: on a client the elapsed time node_now_since_ms returns   *)
(* never wraps below zero (it is at most the adjusted time itself) and is  *)
(* non-decreasing from one call to a later one, also after RESPONSEs that  *)
(* apply a negative step once the router exists.                           *)
C21_AsStated ==
  /\ [](~TELEMETRY_TIME_MASTER =>
          \A cur \in TickReadings :
            node_now_since_ms(World, cur).v <= telemetry_now_ms(World, cur).v)
  /\ [][~TELEMETRY_TIME_MASTER => Elapsed' >= Elapsed]_vars

\* What holds instead: on a master, whose offset stays 0, the elapsed time
\* neither wraps nor decreases.
C21_MasterElapsedMonotone ==
  /\ [](TELEMETRY_TIME_MASTER =>
          \A cur \in TickReadings :
            node_now_since_ms(World, cur).v <= telemetry_now_ms(World, cur).v)
  /\ [][TELEMETRY_TIME_MASTER => Elapsed' >= Elapsed]_vars


=============================================================================
